---- MODULE Spec2Model ----
(***************************************************************************)
(* Model of observer.py: a watchdog observer whose handler MyEH transpiles *)
(* modified '.js' files with babel and, for a modified '.glsl' file,       *)
(* transpiles every file that `git grep -l <basename> -- src` lists.       *)
(*                                                                         *)
(* Text (str) is a sequence of one-character strings; bytes are a sequence *)
(* of integers.  The watchdog library is not part of the repository; its   *)
(* behaviour (PatternMatchingEventHandler.dispatch, the observer thread's  *)
(* run loop, stop and join) is modelled at the places observer.py uses it. *)
(***************************************************************************)
EXTENDS Integers, Sequences, FiniteSets, TLC

VARIABLES
    root,       \* line 33: path, the watch root taken from sys.argv
    mainpc,     \* position of the main flow (lines 33-43)
    watches,    \* what observer.schedule registered: records [path, recursive]
    stopped,    \* the observer's stop flag, set by observer.stop()
    queue,      \* the observer's event queue
    tpc,        \* position of the observer (dispatch) thread
    cur,        \* the event handed to MyEH.dispatch last (NoEvent before)
    branch,     \* what dispatch did with cur
    searchArg,  \* the pattern given to git grep while handling cur
    searchRes,  \* what the search tool answered while handling cur
    todo,       \* on_modified's loop: entries of file_list not yet visited
    calls,      \* transpile_file invocations made while handling cur
    error,      \* the exception that ended the handling of cur
    nevents,    \* number of events the emitter has queued so far
    tfile,      \* input of the transpile_file call of SpecTranspile
    tcmd        \* the command that call built

vars == <<root, mainpc, watches, stopped, queue, tpc, cur, branch, searchArg,
          searchRes, todo, calls, error, nevents, tfile, tcmd>>

mainvars == <<root, mainpc, watches, stopped, queue, tpc, cur, branch,
              searchArg, searchRes, todo, calls, error, nevents>>

(***************************************************************************)
(* Bounds of the model.                                                    *)
(***************************************************************************)
MaxEvents == 2      \* events the emitter queues in one run
MaxLines == 2       \* lines in one answer of the search tool
MaxSegs == 3        \* segments a path of SpecTranspile is built from

None == <<"None">>

(***************************************************************************)
(* Text.                                                                   *)
(***************************************************************************)
SrcSeg == <<".", "/", "s", "r", "c">>       \* './src'  (line 9)
LibSeg == <<".", "/", "l", "i", "b">>       \* './lib'  (line 9)
ExtJs == <<".", "j", "s">>                  \* '.js'    (line 20)
ExtGlsl == <<".", "g", "l", "s", "l">>      \* '.glsl'  (line 22)
DotSlash == <<".", "/">>                    \* './'     (line 28)

MatchAt(s, sub, i) ==
    /\ i >= 1
    /\ i + Len(sub) - 1 <= Len(s)
    /\ \A k \in 1..Len(sub) : s[i + k - 1] = sub[k]

\* str.endswith
endswith(s, suffix) == MatchAt(s, suffix, Len(s) - Len(suffix) + 1)

\* str.replace(old, new, 1): only the first occurrence
RECURSIVE ReplaceFirstFrom(_, _, _, _)
ReplaceFirstFrom(s, old, new, i) ==
    IF i > Len(s) THEN <<>>
    ELSE IF MatchAt(s, old, i)
         THEN new \o SubSeq(s, i + Len(old), Len(s))
         ELSE <<s[i]>> \o ReplaceFirstFrom(s, old, new, i + 1)

str_replace_first(s, old, new) == ReplaceFirstFrom(s, old, new, 1)

\* str.replace(old, new) with a non-empty old: every non-overlapping
\* occurrence, scanning from the left
RECURSIVE ReplaceFrom(_, _, _, _)
ReplaceFrom(s, old, new, i) ==
    IF i > Len(s) THEN <<>>
    ELSE IF MatchAt(s, old, i)
         THEN new \o ReplaceFrom(s, old, new, i + Len(old))
         ELSE <<s[i]>> \o ReplaceFrom(s, old, new, i + 1)

str_replace(s, old, new) == ReplaceFrom(s, old, new, 1)

\* the path as it is, directories included
basename_whole_path(p) == p

\* os.path.basename on a POSIX path: what follows the last '/'
RECURSIVE os_path_basename(_)
os_path_basename(p) ==
    IF \E i \in 1..Len(p) : p[i] = "/"
    THEN os_path_basename(Tail(p))
    ELSE p

(***************************************************************************)
(* transpile_file (lines 8-11): the command string, as the text of the     *)
(* template's three parts around the two substituted paths.                *)
(***************************************************************************)
CmdHead == "npx babel "
CmdMid == " --source-maps -o "

transpile_cmd(file) ==
    <<CmdHead>> \o file \o <<CmdMid>> \o str_replace(file, SrcSeg, LibSeg)

\* the two paths a command built by transpile_cmd embeds
CmdMidAt(cmd) == CHOOSE i \in 1..Len(cmd) : cmd[i] = CmdMid
CmdIn(cmd) == SubSeq(cmd, 2, CmdMidAt(cmd) - 1)
CmdOut(cmd) == SubSeq(cmd, CmdMidAt(cmd) + 1, Len(cmd))

(***************************************************************************)
(* Bytes.  The search tool's answer is bytes; line 28 decodes each entry.  *)
(* git quotes every path byte outside ASCII, so the bytes are ASCII.       *)
(***************************************************************************)
Alphabet == {".", "/", "s", "r", "c", "l", "i", "b", "a", "j", "g", "t",
             "x", "d", "A", "J", "S"}

Ord ==
    [ch \in Alphabet |->
        CASE ch = "." -> 46  [] ch = "/" -> 47  [] ch = "A" -> 65
          [] ch = "J" -> 74  [] ch = "S" -> 83  [] ch = "a" -> 97
          [] ch = "b" -> 98  [] ch = "c" -> 99  [] ch = "d" -> 100
          [] ch = "g" -> 103 [] ch = "i" -> 105 [] ch = "j" -> 106
          [] ch = "l" -> 108 [] ch = "r" -> 114 [] ch = "s" -> 115
          [] ch = "t" -> 116 [] ch = "x" -> 120]

NL == 10                                    \* b'\n'  (line 26)

\* str.encode: how the search tool writes a path
encode(text) == [i \in 1..Len(text) |-> Ord[text[i]]]

\* bytes.decode (line 28)
decode(bs) == [i \in 1..Len(bs) |-> CHOOSE ch \in Alphabet : Ord[ch] = bs[i]]

\* bytes.split(sep) with a one-byte separator (line 26)
RECURSIVE bytes_split(_, _)
bytes_split(bs, sep) ==
    IF \A i \in 1..Len(bs) : bs[i] # sep
    THEN <<bs>>
    ELSE LET i == CHOOSE k \in 1..Len(bs) :
                      bs[k] = sep /\ \A m \in 1..(k - 1) : bs[m] # sep
         IN  <<SubSeq(bs, 1, i - 1)>> \o bytes_split(SubSeq(bs, i + 1, Len(bs)), sep)

\* line 27: if file != b''
entry_kept_always(file) == TRUE

entry_kept(file) == file # <<>>

\* the entries of file_list the loop of lines 26-28 still has to visit, from
\* the first one it transpiles
RECURSIVE skip_entries(_)
skip_entries(entries) ==
    IF entries = <<>> THEN <<>>
    ELSE IF entry_kept(Head(entries)) THEN entries
    ELSE skip_entries(Tail(entries))

(***************************************************************************)
(* The external tools.                                                     *)
(***************************************************************************)
ExitStatuses == {0, 1}

Line_a_js == <<"a">> \o ExtJs                               \* 'a.js'
Line_a_glsl == <<"s", "r", "c", "/", "a">> \o ExtGlsl       \* 'src/a.glsl'
Lines == {<<>>, Line_a_js, Line_a_glsl}

LineSeqs == UNION {[1..n -> Lines] : n \in 0..MaxLines}

\* the output of a line-oriented tool: every line followed by a newline
RECURSIVE tool_output(_)
tool_output(ls) ==
    IF ls = <<>> THEN <<>>
    ELSE encode(Head(ls)) \o <<NL>> \o tool_output(Tail(ls))

\* git grep -l: status 0 with the files it lists, status 1 with no output
\* when nothing matches
SearchAnswers ==
    {[ran |-> TRUE, status |-> 0, lines |-> ls, out |-> tool_output(ls)] :
        ls \in LineSeqs}
    \cup {[ran |-> TRUE, status |-> 1, lines |-> <<>>, out |-> <<>>]}

\* the search tool was not run
NoAnswer == [ran |-> FALSE, status |-> 0, lines |-> <<>>, out |-> <<>>]

\* subprocess.check_output (line 24) raises CalledProcessError on a
\* non-zero exit status
check_output_never_raises(ans) == FALSE

check_output_raises(ans) == ans.status # 0

\* os.system (line 11): the status is returned and line 11 drops it
system_raises_on_failure(status) == status # 0

system_raises(status) == FALSE

(***************************************************************************)
(* Filesystem events and the filter of PatternMatchingEventHandler.        *)
(***************************************************************************)
P_a_js == SrcSeg \o <<"/", "a">> \o ExtJs                   \* './src/a.js'
P_a_glsl == SrcSeg \o <<"/", "a">> \o ExtGlsl               \* './src/a.glsl'
P_A_JS == SrcSeg \o <<"/", "A", ".", "J", "S">>             \* './src/A.JS'
P_a_txt == SrcSeg \o <<"/", "a", ".", "t", "x", "t">>       \* './src/a.txt'
P_d_js == SrcSeg \o <<"/", "d">> \o ExtJs                   \* './src/d.js'

Event(type, src, dest, dir, origin) ==
    [type |-> type, src |-> src, dest |-> dest, is_directory |-> dir,
     origin |-> origin]

NoEvent == Event("none", None, None, FALSE, "none")

\* what happens in the watched tree from outside
FsEvents ==
    {Event("modified", p, None, FALSE, "external") :
        p \in {P_a_js, P_a_glsl, P_A_JS, P_a_txt}}
    \cup {Event("created", P_a_js, None, FALSE, "external"),
          Event("deleted", P_a_glsl, None, FALSE, "external"),
          Event("moved", P_a_txt, P_a_js, FALSE, "external"),
          Event("modified", P_d_js, None, TRUE, "external")}

\* line 17
patterns == {<<"*">> \o ExtJs, <<"*">> \o ExtGlsl}

ignore_directories_off == FALSE

ignore_directories == TRUE

\* PatternMatchingEventHandler's default: line 17 does not pass it
case_sensitive == FALSE

lower(s) ==
    [i \in 1..Len(s) |->
        CASE s[i] = "A" -> "a" [] s[i] = "J" -> "j" [] s[i] = "S" -> "s"
          [] OTHER -> s[i]]

\* fnmatch with '*' as the only wildcard
RECURSIVE fnmatch(_, _)
fnmatch(name, pat) ==
    IF pat = <<>> THEN name = <<>>
    ELSE IF Head(pat) = "*"
         THEN \E k \in 0..Len(name) :
                  fnmatch(SubSeq(name, k + 1, Len(name)), Tail(pat))
         ELSE /\ name # <<>>
              /\ Head(name) = Head(pat)
              /\ fnmatch(Tail(name), Tail(pat))

match_any_paths(paths) ==
    \E p \in paths : \E pat \in patterns :
        IF case_sensitive THEN fnmatch(p, pat)
        ELSE fnmatch(lower(p), lower(pat))

\* PatternMatchingEventHandler.dispatch's test: directories are dropped,
\* then the source path and a moved event's destination path are matched
accepts(e) ==
    /\ ~(ignore_directories /\ e.is_directory)
    /\ match_any_paths({e.src} \cup (IF e.dest = None THEN {} ELSE {e.dest}))

(***************************************************************************)
(* The main flow (lines 32-43).                                            *)
(***************************************************************************)
Argvs == {<<"observer.py">>, <<"observer.py", SrcSeg>>}

\* line 33
watch_root(argv) == IF Len(argv) > 1 THEN argv[2] ELSE <<".">>

\* line 36
recursive == TRUE

\* a path lies in a watched tree
in_tree(p, w) ==
    /\ MatchAt(p, w.path \o <<"/">>, 1)
    /\ \/ w.recursive
       \/ \A i \in (Len(w.path) + 2)..Len(p) : p[i] # "/"

watched(p) == \E w \in watches : in_tree(p, w)

\* the emitter threads run from observer.start() to observer.stop()
emitting == mainpc \in {"started", "loop", "stop"} /\ ~stopped

\* an uncaught KeyboardInterrupt ends the process, its daemon threads included
process_alive == mainpc # "aborted"

thread_alive == tpc \in {"get", "search", "system"}

\* observer.join() (line 43) returns once the observer thread has ended
join_returns_at_once == TRUE

join_returns == ~thread_alive

\* the state of the watch loop
LoopState ==
    CASE mainpc \in {"schedule", "start", "started"} -> "Idle"
      [] mainpc = "loop" -> "Running"
      [] mainpc \in {"stop", "join"} -> "Stopping"
      [] mainpc = "done" -> "Stopped"
      [] mainpc = "aborted" -> "Exited"

Init ==
    /\ \E argv \in Argvs : root = watch_root(argv)
    /\ mainpc = "schedule"
    /\ watches = {}
    /\ stopped = FALSE
    /\ queue = <<>>
    /\ tpc = "unstarted"
    /\ cur = NoEvent
    /\ branch = "none"
    /\ searchArg = None
    /\ searchRes = NoAnswer
    /\ todo = <<>>
    /\ calls = <<>>
    /\ error = "none"
    /\ nevents = 0
    /\ tfile = None
    /\ tcmd = None

handlervars == <<cur, branch, searchArg, searchRes, todo, calls, error>>

\* lines 34-36
Schedule ==
    /\ mainpc = "schedule"
    /\ mainpc' = "start"
    /\ watches' = watches \cup {[path |-> root, recursive |-> recursive]}
    /\ UNCHANGED <<root, stopped, queue, tpc, handlervars, nevents, tfile, tcmd>>

\* line 37
Start ==
    /\ mainpc = "start"
    /\ mainpc' = "started"
    /\ tpc' = "get"
    /\ UNCHANGED <<root, watches, stopped, queue, handlervars, nevents, tfile, tcmd>>

\* line 38: the main flow enters the try block and its sleep loop
EnterLoop ==
    /\ mainpc = "started"
    /\ mainpc' = "loop"
    /\ UNCHANGED <<root, watches, stopped, queue, tpc, handlervars, nevents,
                   tfile, tcmd>>

\* lines 38-41: KeyboardInterrupt raised in the sleep loop and caught
Interrupt ==
    /\ mainpc = "loop"
    /\ mainpc' = "stop"
    /\ UNCHANGED <<root, watches, stopped, queue, tpc, handlervars, nevents,
                   tfile, tcmd>>

\* KeyboardInterrupt raised outside the try block (lines 33-37, inside the
\* except clause before line 42 has run, or in observer.join() on line 43):
\* nothing catches it and the process ends where it is
InterruptUncaught ==
    /\ mainpc \in {"schedule", "start", "started", "stop", "join"}
    /\ mainpc' = "aborted"
    /\ UNCHANGED <<root, watches, stopped, queue, tpc, handlervars, nevents,
                   tfile, tcmd>>

\* line 42
Stop ==
    /\ mainpc = "stop"
    /\ mainpc' = "join"
    /\ stopped' = TRUE
    /\ UNCHANGED <<root, watches, queue, tpc, handlervars, nevents, tfile, tcmd>>

\* line 43
Join ==
    /\ mainpc = "join"
    /\ join_returns
    /\ mainpc' = "done"
    /\ UNCHANGED <<root, watches, stopped, queue, tpc, handlervars, nevents,
                   tfile, tcmd>>

\* the emitter queues an event of the watched tree
FsEvent ==
    /\ emitting
    /\ nevents < MaxEvents
    /\ \E e \in FsEvents :
        /\ watched(e.src)
        /\ queue' = Append(queue, e)
    /\ nevents' = nevents + 1
    /\ UNCHANGED <<root, mainpc, watches, stopped, tpc, handlervars, tfile, tcmd>>

(***************************************************************************)
(* The observer thread: it takes an event from the queue, hands it to      *)
(* MyEH.dispatch and runs the handler to the end, blocking in              *)
(* subprocess.check_output and in os.system.                               *)
(* An exception leaving the handler leaves the thread's run loop as well:  *)
(* the loop catches queue.Empty only.                                      *)
(***************************************************************************)
\* the thread's loop condition, evaluated when a dispatch has returned
after_dispatch == IF stopped THEN "terminated" ELSE "get"

\* one transpile_file invocation; status is os.system's result once returned
Call(file) ==
    [file |-> file, cmd |-> transpile_cmd(file), returned |-> FALSE, status |-> 0]

\* lines 26-28 from the entries still to visit: skip to the next entry that
\* is kept and call transpile_file on it, or leave the loop and the handler
loop_on(done, entries) ==
    LET rest == skip_entries(entries)
    IN  IF rest = <<>>
        THEN /\ calls' = done
             /\ todo' = <<>>
             /\ tpc' = after_dispatch
        ELSE /\ calls' = Append(done, Call(DotSlash \o decode(Head(rest))))
             /\ todo' = Tail(rest)
             /\ tpc' = "system"

\* dispatch ends without entering on_modified's branches
handled_as(b) ==
    /\ branch' = b
    /\ searchArg' = None
    /\ searchRes' = NoAnswer
    /\ todo' = <<>>
    /\ calls' = <<>>
    /\ error' = "none"
    /\ tpc' = after_dispatch

\* lines 19-24, up to the first blocking call: os.system for a '.js' path,
\* subprocess.check_output for a '.glsl' path
on_modified(event) ==
    IF endswith(event.src, ExtJs)
    THEN /\ branch' = "transpile"
         /\ searchArg' = None
         /\ searchRes' = NoAnswer
         /\ todo' = <<>>
         /\ calls' = <<Call(event.src)>>
         /\ error' = "none"
         /\ tpc' = "system"
    ELSE IF endswith(event.src, ExtGlsl)
    THEN /\ branch' = "resolve"
         /\ searchArg' = os_path_basename(event.src)
         /\ searchRes' = NoAnswer
         /\ todo' = <<>>
         /\ calls' = <<>>
         /\ error' = "none"
         /\ tpc' = "search"
    ELSE handled_as("neither")

\* the thread takes the next event: PatternMatchingEventHandler.dispatch,
\* which calls on_modified for an accepted modified event and the inherited
\* empty handler for any other accepted event
Dispatch ==
    /\ process_alive
    /\ tpc = "get"
    /\ queue # <<>>
    /\ queue' = Tail(queue)
    /\ cur' = Head(queue)
    /\ IF ~accepts(Head(queue)) THEN handled_as("ignored")
       ELSE IF Head(queue).type # "modified" THEN handled_as("noop")
       ELSE on_modified(Head(queue))
    /\ UNCHANGED <<root, mainpc, watches, stopped, nevents, tfile, tcmd>>

\* git grep exits and subprocess.check_output returns or raises (line 24);
\* on a return lines 25-28 run up to the first os.system call
SearchReturn ==
    /\ process_alive
    /\ tpc = "search"
    /\ \E ans \in SearchAnswers :
        /\ searchRes' = ans
        /\ IF check_output_raises(ans)
           THEN /\ error' = "CalledProcessError"
                /\ todo' = <<>>
                /\ calls' = <<>>
                /\ tpc' = "crashed"
           ELSE /\ error' = "none"
                /\ loop_on(<<>>, bytes_split(ans.out, NL))
    /\ UNCHANGED <<root, mainpc, watches, stopped, queue, cur, branch,
                   searchArg, nevents, tfile, tcmd>>

\* the file a finished command wrote shows up as a modification of the tree
written(call, status) ==
    IF status = 0 /\ emitting /\ watched(CmdOut(call.cmd)) /\ nevents < MaxEvents
    THEN /\ queue' = Append(queue, Event("modified", CmdOut(call.cmd), None,
                                         FALSE, "build"))
         /\ nevents' = nevents + 1
    ELSE UNCHANGED <<queue, nevents>>

\* os.system returns (line 11); transpile_file returns and the handler goes on
SystemReturn ==
    /\ process_alive
    /\ tpc = "system"
    /\ \E status \in ExitStatuses :
        LET n == Len(calls)
            done == [calls EXCEPT ![n].returned = TRUE, ![n].status = status]
        IN  /\ written(calls[n], status)
            /\ IF system_raises(status)
               THEN /\ error' = "CalledProcessError"
                    /\ calls' = done
                    /\ todo' = <<>>
                    /\ tpc' = "crashed"
               ELSE /\ error' = error
                    /\ loop_on(done, todo)
    /\ UNCHANGED <<root, mainpc, watches, stopped, cur, branch, searchArg,
                   searchRes, tfile, tcmd>>

\* the thread, waiting on an empty queue, finds the observer stopped
ThreadExit ==
    /\ process_alive
    /\ tpc = "get"
    /\ queue = <<>>
    /\ stopped
    /\ tpc' = "terminated"
    /\ UNCHANGED <<root, mainpc, watches, stopped, queue, handlervars, nevents,
                   tfile, tcmd>>

Next ==
    \/ Schedule
    \/ Start
    \/ EnterLoop
    \/ Interrupt
    \/ InterruptUncaught
    \/ Stop
    \/ Join
    \/ FsEvent
    \/ Dispatch
    \/ SearchReturn
    \/ SystemReturn
    \/ ThreadExit

Spec == Init /\ [][Next]_vars

(***************************************************************************)
(* transpile_file as a function of its argument: the paths are built from  *)
(* up to MaxSegs segments.                                                 *)
(***************************************************************************)
Segments == {SrcSeg, LibSeg, <<".">>, <<"/", "a">>, ExtJs,
             <<".", "/", "S", "r", "c">>, <<"s", "r", "c">>}

RECURSIVE concat(_)
concat(ss) == IF ss = <<>> THEN <<>> ELSE Head(ss) \o concat(Tail(ss))

PathInputs == {concat(ss) : ss \in UNION {[1..n -> Segments] : n \in 1..MaxSegs}}

InitTranspile ==
    /\ tfile \in PathInputs
    /\ tcmd = None
    /\ root = <<".">>
    /\ mainpc = "schedule"
    /\ watches = {}
    /\ stopped = FALSE
    /\ queue = <<>>
    /\ tpc = "unstarted"
    /\ cur = NoEvent
    /\ branch = "none"
    /\ searchArg = None
    /\ searchRes = NoAnswer
    /\ todo = <<>>
    /\ calls = <<>>
    /\ error = "none"
    /\ nevents = 0

\* lines 9-10
Transpile ==
    /\ tfile # None
    /\ tcmd = None
    /\ tcmd' = transpile_cmd(tfile)
    /\ UNCHANGED <<tfile, mainvars>>

SpecTranspile == InitTranspile /\ [][Transpile]_vars

(***************************************************************************)
(* Properties.                                                             *)
(***************************************************************************)
\* the event being handled is a modification of a file whose path ends in ext
ModifiedFile(ext) ==
    /\ cur.type = "modified"
    /\ ~cur.is_directory
    /\ endswith(cur.src, ext)

\* the handling of cur has come to its end
HandlerDone == cur # NoEvent /\ tpc \notin {"search", "system"}

\* b is the final component of path p
IsBaseNameOf(b, p) ==
    /\ \A i \in 1..Len(b) : b[i] # "/"
    /\ \/ p = b
       \/ \E k \in 1..Len(p) : p[k] = "/" /\ SubSeq(p, k + 1, Len(p)) = b

\* the paths given to transpile_file while handling cur, in order
CallFiles == [i \in 1..Len(calls) |-> calls[i].file]

IsPrefix(s, t) == Len(s) <= Len(t) /\ SubSeq(t, 1, Len(s)) = s

\* './' + line for the non-empty lines the search tool listed, in order
Dependents(ls) ==
    LET kept == SelectSeq(ls, LAMBDA l : l # <<>>)
    IN  [i \in 1..Len(kept) |-> DotSlash \o kept[i]]

JsHandledOnce ==
    ModifiedFile(ExtJs) =>
        /\ Len(calls) = 1
        /\ calls[1].file = cur.src
        /\ CmdIn(calls[1].cmd) = cur.src
        /\ searchArg = None
        /\ searchRes = NoAnswer

GlslSearched ==
    ModifiedFile(ExtGlsl) =>
        /\ IsBaseNameOf(searchArg, cur.src)
        /\ tpc # "search" => searchRes.ran

\* C1 (as amended): a modified '.js' file is given to transpile_file exactly
\* once, with exactly its path, and nothing is searched; for a modified
\* '.glsl' file git grep is run on the base name of exactly that path, and
\* transpile_file is called on the '.glsl' path itself only when the search
\* output lists that file.
C1_DispatchByExtension ==
    /\ JsHandledOnce
    /\ GlslSearched
    /\ ModifiedFile(ExtGlsl) =>
        \A i \in 1..Len(calls) :
            calls[i].file = cur.src =>
                \E k \in 1..Len(searchRes.lines) :
                    DotSlash \o searchRes.lines[k] = cur.src

\* C1 (as claimed): ..., and transpile_file is never called on the '.glsl'
\* path itself.
C1_NeverOnGlslPath ==
    /\ JsHandledOnce
    /\ GlslSearched
    /\ ModifiedFile(ExtGlsl) => \A i \in 1..Len(calls) : calls[i].file # cur.src

C1_Witness ==
    /\ ModifiedFile(ExtGlsl)
    /\ searchArg = <<"a">> \o ExtGlsl
    /\ HandlerDone
    /\ \E i \in 1..Len(calls) : calls[i].file = cur.src

\* C2: an event that is not a modification, a directory event, or a modified
\* file whose path ends in neither '.js' nor '.glsl' causes no invocation of
\* transpile_file and none of the search tool.
C2_NoInvocation ==
    (/\ cur # NoEvent
     /\ \/ cur.type # "modified"
        \/ cur.is_directory
        \/ ~(endswith(cur.src, ExtJs) \/ endswith(cur.src, ExtGlsl)))
    => /\ calls = <<>>
       /\ searchArg = None
       /\ searchRes = NoAnswer
       /\ tpc \notin {"search", "system"}

C2_Witness ==
    /\ cur.type = "moved"
    /\ cur.dest = P_a_js
    /\ branch = "noop"
    /\ calls = <<>>

\* the positions of file where './src' starts
Occurrences(file) == {k \in 1..Len(file) : MatchAt(file, SrcSeg, k)}

\* out is file with './lib' written over the occurrences of './src' that
\* start at the positions of ks
Rewritten(file, out, ks) ==
    /\ Len(out) = Len(file)
    /\ \A i \in 1..Len(file) :
        IF \E k \in ks : i \in k..(k + Len(SrcSeg) - 1)
        THEN \E k \in ks : i \in k..(k + Len(SrcSeg) - 1) /\ out[i] = LibSeg[i - k + 1]
        ELSE out[i] = file[i]

\* C3 (as amended): the output path in the command is the input path with
\* every occurrence of the literal, case-sensitive './src' replaced by
\* './lib'; a path without './src' is unchanged.
C3_EveryOccurrence ==
    tcmd # None =>
        /\ CmdIn(tcmd) = tfile
        /\ Rewritten(tfile, CmdOut(tcmd), Occurrences(tfile))

\* C3 (as claimed): only the first occurrence of './src' is replaced, any
\* later one is left unchanged.
C3_FirstOccurrenceOnly ==
    tcmd # None =>
        /\ CmdIn(tcmd) = tfile
        /\ Rewritten(tfile, CmdOut(tcmd),
                     {k \in Occurrences(tfile) : \A m \in Occurrences(tfile) : k <= m})

C3_Witness ==
    /\ tcmd # None
    /\ Cardinality(Occurrences(tfile)) = 2
    /\ Occurrences(CmdOut(tcmd)) = {}

\* C4: when the search for a modified '.glsl' file succeeds, transpile_file
\* is called once per non-empty line of the output, in output order, with
\* './' followed by the line, and not for the empty entries.
C4_OncePerLine ==
    (ModifiedFile(ExtGlsl) /\ searchRes.ran /\ searchRes.status = 0) =>
        /\ IsPrefix(CallFiles, Dependents(searchRes.lines))
        /\ HandlerDone => CallFiles = Dependents(searchRes.lines)
        /\ \A i \in 1..Len(calls) : CmdIn(calls[i].cmd) = calls[i].file

C4_Witness ==
    /\ ModifiedFile(ExtGlsl)
    /\ HandlerDone
    /\ searchRes.ran
    /\ searchRes.out = encode(Line_a_js) \o <<NL>> \o encode(Line_a_glsl) \o <<NL>>
    /\ CallFiles = <<DotSlash \o Line_a_js, DotSlash \o Line_a_glsl>>

\* C5: when the search tool exits non-zero for a modified '.glsl' file, the
\* handling ends in an error that leaves on_modified and transpile_file is
\* not called for that event.
C5_SearchFailureRaises ==
    (ModifiedFile(ExtGlsl) /\ searchRes.ran /\ searchRes.status # 0) =>
        /\ error = "CalledProcessError"
        /\ calls = <<>>
        /\ todo = <<>>
        /\ tpc \notin {"search", "system"}

C5_Witness ==
    /\ ModifiedFile(ExtGlsl)
    /\ searchRes.ran
    /\ searchRes.status = 1
    /\ error = "CalledProcessError"

\* C6 (as claimed): after a search failure the watch loop is still Running
\* and an accepted modification queued later is still dispatched.
C6_LaterEventsDispatched ==
    (/\ error = "CalledProcessError"
     /\ LoopState = "Running"
     /\ queue # <<>>
     /\ accepts(Head(queue)))
    => ENABLED Dispatch

\* C7: a non-zero exit status of the transpile command raises nothing and is
\* not retried: the handler goes on to every remaining dependent.
C7_FailureSwallowed ==
    (\E i \in 1..Len(calls) : calls[i].returned /\ calls[i].status # 0) =>
        LET expected == IF branch = "resolve" THEN Dependents(searchRes.lines)
                        ELSE <<cur.src>>
        IN  /\ error = "none"
            /\ tpc # "crashed"
            /\ IsPrefix(CallFiles, expected)
            /\ HandlerDone => CallFiles = expected
            /\ (tpc = "system" /\ ~calls[Len(calls)].returned)
               \/ (HandlerDone /\ todo = <<>>)

C7_Witness ==
    /\ branch = "resolve"
    /\ Len(calls) = 2
    /\ calls[1].returned /\ calls[1].status = 1
    /\ calls[2].returned /\ calls[2].status = 0
    /\ HandlerDone

LoopMoves ==
    {<<"Idle", "Running">>, <<"Running", "Stopping">>, <<"Stopping", "Stopped">>}

\* the process ended by a KeyboardInterrupt that nothing caught
ExitMoves == {<<"Idle", "Exited">>, <<"Stopping", "Exited">>}

LifecycleStep(moves) ==
    /\ LoopState' # LoopState => <<LoopState, LoopState'>> \in moves
    /\ LoopState' = "Running" =>
        /\ watches' = {[path |-> root, recursive |-> TRUE]}
        /\ tpc' # "unstarted"
    /\ (LoopState = "Running" /\ LoopState' # "Running") =>
        (mainpc' = "stop" /\ ~stopped')
    /\ mainpc' = "done" =>
        /\ stopped'
        /\ tpc' \in {"terminated", "crashed"}
        /\ \A i \in 1..Len(calls') : calls'[i].returned
    /\ tpc \in {"search", "system"} => LoopState' # "Stopped"
    /\ (mainpc' = "done" /\ branch' = "resolve" /\ error' = "none") =>
        CallFiles' = Dependents(searchRes'.lines)

\* C8 (as amended): the watch loop moves Idle -> Running -> Stopping ->
\* Stopped, or from Idle or Stopping to the end of the process when an
\* interrupt arrives outside the try block, and in no other way; it is
\* Running only with the handler registered recursively on the watch root and
\* the observer started; it leaves Running only by the interrupt; stop is
\* signalled before join returns; Stopped is reached only with the observer
\* thread ended, so a handler invocation in flight runs to its end before
\* Stopped.
C8_Lifecycle == [][LifecycleStep(LoopMoves \cup ExitMoves)]_vars

\* C8 (as claimed): the watch loop only ever moves Idle -> Running ->
\* Stopping -> Stopped, with no other transition.
C8_NoOtherTransition == [][LifecycleStep(LoopMoves)]_vars

C8_Witness ==
    /\ mainpc = "done"
    /\ stopped
    /\ tpc = "terminated"
    /\ Len(calls) = 2

\* C9 (as claimed): every event the filter accepts and hands to on_modified
\* takes one of the two branches.
C9_OneOfTwoBranches ==
    (cur.type = "modified" /\ branch \notin {"none", "ignored"}) =>
        branch \in {"transpile", "resolve"}

\* C10 (as claimed): with the watch root '.', a file written by a build
\* never leads to another invocation of transpile_file.
C10_NoSelfTrigger ==
    (root = <<".">> /\ cur.origin = "build") => calls = <<>>

====
